---------------------------- MODULE Spec2Model ----------------------------
(***************************************************************************)
(* Model of the bandpass filter nodes of rust-photoacoustic:               *)
(*   rust/scipy_bandpass_filter.py            (basic, uncached node)        *)
(*   rust/scipy_bandpass_filter_optimized.py  (node with a coefficient     *)
(*                                             cache)                      *)
(*   rust/python/gen_bandpass_reference_values.py (reference harness)      *)
(*   rust/tests/test_scripts/advanced_action.py   (action script)          *)
(*                                                                         *)
(* Numbers.  A normalized cutoff is the rational  f / (sample_rate / 2).   *)
(* It is kept exactly, as the integer numerator  2000 * f  over the        *)
(* denominator  den = 1000 * sample_rate,  so that 0.001 is sample_rate    *)
(* and 0.999 is 999 * sample_rate over the same denominator.               *)
(*                                                                         *)
(* A cascade (the "sos" array scipy returns) is identified by the inputs   *)
(* of its design: the order and the two normalized cutoffs handed to       *)
(* signal.butter.  Its coefficient values are floating-point numbers that  *)
(* are not modelled; sample arithmetic is done on integers with one fixed  *)
(* second-order bandpass section (see sosfilt).                            *)
(***************************************************************************)
EXTENDS Integers, Sequences, FiniteSets, TLC

(***************************************************************************)
(* Program constants.                                                      *)
(***************************************************************************)
LOW_FREQ == 300
HIGH_FREQ == 3000
FILTER_ORDER == 5

\* gen_bandpass_reference_values.py: the harness configuration as written.
SAMPLE_RATE == 48000
CENTER_FREQ == 1000
BANDWIDTH == 200
ORDERS == <<2, 4, 6, 8, 10>>

\* initialize(): common_sample_rates
common_sample_rates == <<44100, 48000, 96000, 192000>>

(***************************************************************************)
(* Bounds of the model.                                                    *)
(***************************************************************************)
\* A sample rate whose design raises is never cached, so every call for it
\* attempts the design again: attempts are counted up to this cap.
MaxDesigns == 2
\* Concurrent callers of _design_filter_cached.
NumCallers == 2
\* The length of the harness's test signals (SIGNAL_LENGTH, 1024 in the
\* source): the model's signals are the first SignalLen samples.
SignalLen == 6
\* The number of frequency points of a frequency response (n_points, 1024 in
\* the source).
NumPoints == 4
\* The state of numpy's global generator when the script starts is any of
\* 0..MaxRngState.
MaxRngState == 2
\* The capacities of the two buffers of the action script, deque(maxlen=100)
\* and deque(maxlen=50) in the source: the model's buffers are shorter.
MeasurementsMaxLen == 3
AlertsMaxLen == 2
\* The action script is called at most MaxClock times; the clock (time.time())
\* advances by one at every call.
MaxClock == 7

(***************************************************************************)
(* State.                                                                  *)
(***************************************************************************)
VARIABLES
    filter_cache,   \* _filter_cache
    initialized,    \* _initialized
    designs,        \* history: signal.butter runs per rate since the last shutdown
    call,           \* the callback that ran last
    arg,            \* its argument (None when it takes none)
    ret,            \* its outcome: Ok(value) or the exception raised
    prev,           \* the SingleChannel block, and its output, of the callback before
    caller_pc,      \* per concurrent caller: where it is in _design_filter_cached
    caller_rate,    \* its sample_rate argument
    caller_sos,     \* its local sos / the outcome of its call
    config,         \* harness: center_freq, bandwidth, sample_rate, orders
    rng_state,      \* harness: the state of numpy's global random generator
    harness_pc,     \* harness: where the script is
    order_index,    \* harness: position of the loop over ORDERS
    reference_data, \* harness: the dataset being built (None: no such object)
    last_design,    \* harness: the last call of design_scipy_bandpass_filter
    report,         \* harness: what validate_filter_performance printed
    saved_file,     \* harness: the content of the JSON file (None: not written)
    state,          \* action script: the ActionState instance
    clock,          \* action script: time.time()
    action_call,    \* action script: the function that ran last
    action_ret,     \* action script: what it returned
    accepted_measurements,  \* history: the records appended to state.measurements
    accepted_alerts         \* history: the records appended to state.alerts

nodeVars == <<filter_cache, initialized, designs>>
callVars == <<call, arg, ret>>
concVars == <<caller_pc, caller_rate, caller_sos>>
harnessVars ==
    <<config, rng_state, harness_pc, order_index, reference_data, last_design, report, saved_file>>
actionVars ==
    <<state, clock, action_call, action_ret, accepted_measurements, accepted_alerts>>
vars == <<nodeVars, callVars, prev, concVars, harnessVars, actionVars>>

(***************************************************************************)
(* Small helpers.                                                          *)
(***************************************************************************)
Max(a, b) == IF a >= b THEN a ELSE b
Min(a, b) == IF a <= b THEN a ELSE b

Range(s) == {s[i] : i \in 1..Len(s)}

Reverse(s) == [i \in 1..Len(s) |-> s[Len(s) + 1 - i]]

\* The outcome of a call: the value it returns, or the exception it raises.
Ok(v) == [ok |-> TRUE, val |-> v]
Raise(kind, msg) == [ok |-> FALSE, error |-> kind, msg |-> msg]

\* Python's None.
None == [none |-> TRUE]

(***************************************************************************)
(* signal.butter(N, [low, high], btype='band', output='sos').              *)
(* scipy rejects a digital critical frequency outside the open interval    *)
(* (0, 1); otherwise it returns the cascade.  low, high are numerators     *)
(* over den.                                                               *)
(***************************************************************************)
\* Faulty variant: the design is made as for a low-pass or high-pass filter,
\* which has N poles, in (N + 1) div 2 sections.
butter_single_edge(order, low, high, den) ==
    IF low <= 0 \/ low >= den \/ high <= 0 \/ high >= den
    THEN Raise("ValueError", "Digital filter critical frequencies must be 0 < Wn < 1")
    ELSE Ok([order |-> (order + 1) \div 2, low |-> low, high |-> high, den |-> den])

butter(order, low, high, den) ==
    IF low <= 0 \/ low >= den \/ high <= 0 \/ high >= den
    THEN Raise("ValueError", "Digital filter critical frequencies must be 0 < Wn < 1")
    ELSE Ok([order |-> order, low |-> low, high |-> high, den |-> den])

\* A bandpass design of order N has 2N poles: scipy returns N sections.
n_sections(sos) == sos.order

\* The shape of the sos array: one row of 6 coefficients (b0, b1, b2, a0, a1,
\* a2) per section.
sos_shape(sos) == <<n_sections(sos), 6>>

(***************************************************************************)
(* The clamping of design_filter and _design_filter_cached:                *)
(*   low_norm  = max(0.001, min(0.999, low_norm))                          *)
(*   high_norm = max(low_norm + 0.001, min(0.999, high_norm))              *)
(* Returns the pair handed to signal.butter, as numerators over            *)
(* 1000 * sample_rate.                                                     *)
(***************************************************************************)
clamp_norm(low_freq, high_freq, sample_rate) ==
    LET low_norm  == 2000 * low_freq
        high_norm == 2000 * high_freq
        low_c     == Max(sample_rate, Min(999 * sample_rate, low_norm))
        high_c    == Max(low_c + sample_rate, Min(999 * sample_rate, high_norm))
    IN  [low |-> low_c, high |-> high_c, den |-> 1000 * sample_rate]

\* scipy_bandpass_filter.py: design_filter(sample_rate)
design_filter(sample_rate) ==
    LET c == clamp_norm(LOW_FREQ, HIGH_FREQ, sample_rate)
    IN  butter(FILTER_ORDER, c.low, c.high, c.den)

(***************************************************************************)
(* Sample filtering.                                                       *)
(*                                                                         *)
(* One second-order section, run causally from rest over the block x:      *)
(*   y[n] = b0 x[n] + b1 x[n-1] + b2 x[n-2] - a1 y[n-1] - a2 y[n-2]        *)
(* The model fixes the section (b = 1, 0, -1 : zeros at +1 and -1, as in   *)
(* every Butterworth bandpass section; a = 1, 0, 1/2) and computes on      *)
(* integers.  What is kept of scipy: the output has the length of the      *)
(* input, sample n depends on the samples before it (the section has       *)
(* memory), and every call starts from rest.                               *)
(***************************************************************************)
\* The section's memory: the two samples before, in and out.
at_rest == [x1 |-> 0, x2 |-> 0, y1 |-> 0, y2 |-> 0]

section_step(s, xn) ==
    LET yn == xn - s.x2 - (s.y2 \div 2)
    IN  [x1 |-> xn, x2 |-> s.x1, y1 |-> yn, y2 |-> s.y1]

\* The section run over x[lo..hi] from memory s: the output samples and the
\* memory it ends with.  (The block is halved to keep the evaluation shallow.)
RECURSIVE section_run(_, _, _, _)
section_run(x, lo, hi, s) ==
    IF lo > hi THEN [out |-> << >>, s |-> s]
    ELSE IF lo = hi
    THEN LET t == section_step(s, x[lo]) IN [out |-> <<t.y1>>, s |-> t]
    ELSE LET mid == (lo + hi) \div 2
             l   == section_run(x, lo, mid, s)
             r   == section_run(x, mid + 1, hi, l.s)
         IN  [out |-> l.out \o r.out, s |-> r.s]

sos_section(x) == section_run(x, 1, Len(x), at_rest).out

RECURSIVE cascade_run(_, _)
cascade_run(k, x) == IF k = 0 THEN x ELSE cascade_run(k - 1, sos_section(x))

\* signal.sosfilt(sos, x): one causal pass through every section.
sosfilt(sos, x) == cascade_run(n_sections(sos), x)

\* signal.sosfiltfilt: default padlen = 3 * ntaps, ntaps = 2 * n_sections + 1
\* (no section of a Butterworth bandpass has a zero b2 or a2).
padlen(sos) == 3 * (2 * n_sections(sos) + 1)

(***************************************************************************)
(* signal.sosfiltfilt(sos, x): forward pass, then a pass over the reversed *)
(* result, reversed again.  scipy raises ValueError when the block is not  *)
(* longer than padlen.  (The odd extension of padlen samples at both ends  *)
(* and the steady-state initial conditions are not modelled.)              *)
(***************************************************************************)
\* Faulty variant: no minimum length is asked of the block.
sosfiltfilt_any_length(sos, x) == Ok(Reverse(sosfilt(sos, Reverse(sosfilt(sos, x)))))

sosfiltfilt(sos, x) ==
    IF Len(x) <= padlen(sos)
    THEN Raise("ValueError", "The length of the input vector x must be greater than padlen")
    ELSE Ok(Reverse(sosfilt(sos, Reverse(sosfilt(sos, x)))))

(***************************************************************************)
(* The optimized node: scipy_bandpass_filter_optimized.py.                 *)
(*                                                                         *)
(* The module state is passed through the operators as a record st:        *)
(*   cache        the dict _filter_cache: sample rate -> cascade           *)
(*   initialized  the flag _initialized                                    *)
(*   designs      (history) per sample rate, the number of times the node  *)
(*                has run signal.butter for it since the last shutdown     *)
(* Every operator returns [st |-> the state it leaves, out |-> outcome]:   *)
(* a call that raises keeps the writes it made before raising.             *)
(***************************************************************************)
Put(f, k, v) == [x \in DOMAIN f \cup {k} |-> IF x = k THEN v ELSE f[x]]

\* Faulty variant: the lookup ignores the rate: once a cascade is cached, it
\* is returned, and stored, for every rate.
_design_filter_cached_stale(st, sample_rate) ==
    IF sample_rate \in DOMAIN st.cache
    THEN [st |-> st, out |-> Ok(st.cache[sample_rate])]
    ELSE IF DOMAIN st.cache # {}
    THEN LET any == st.cache[CHOOSE r \in DOMAIN st.cache : TRUE]
         IN  [st |-> [st EXCEPT !.cache = Put(@, sample_rate, any)], out |-> Ok(any)]
    ELSE LET c   == clamp_norm(LOW_FREQ, HIGH_FREQ, sample_rate)
             sos == butter(FILTER_ORDER, c.low, c.high, c.den)
             st1 == [st EXCEPT !.designs[sample_rate] = @ + 1]
         IN  IF sos.ok
             THEN [st |-> [st1 EXCEPT !.cache = Put(@, sample_rate, sos.val)], out |-> sos]
             ELSE [st |-> st1, out |-> sos]

\* Faulty variant: the cache keeps one entry, a new rate takes the place of
\* the others.
_design_filter_cached_evicting(st, sample_rate) ==
    IF sample_rate \in DOMAIN st.cache
    THEN [st |-> st, out |-> Ok(st.cache[sample_rate])]
    ELSE LET c   == clamp_norm(LOW_FREQ, HIGH_FREQ, sample_rate)
             sos == butter(FILTER_ORDER, c.low, c.high, c.den)
             st1 == [st EXCEPT !.designs[sample_rate] = @ + 1]
         IN  IF sos.ok
             THEN [st |-> [st1 EXCEPT !.cache = Put(<< >>, sample_rate, sos.val)], out |-> sos]
             ELSE [st |-> st1, out |-> sos]

_design_filter_cached(st, sample_rate) ==
    IF sample_rate \in DOMAIN st.cache
    THEN [st |-> st, out |-> Ok(st.cache[sample_rate])]
    ELSE LET c   == clamp_norm(LOW_FREQ, HIGH_FREQ, sample_rate)
             sos == butter(FILTER_ORDER, c.low, c.high, c.den)
             st1 == [st EXCEPT !.designs[sample_rate] = @ + 1]
         IN  IF sos.ok
             THEN [st |-> [st1 EXCEPT !.cache = Put(@, sample_rate, sos.val)], out |-> sos]
             ELSE [st |-> st1, out |-> sos]

\* data.get("type")
get_type(data) == IF "type" \in DOMAIN data THEN data.type ELSE "None"

\* What the last callback leaves to look back at.
Last ==
    IF call = "process_data" /\ ret.ok
    THEN [samples |-> arg.samples, sample_rate |-> arg.sample_rate, out |-> ret.val.samples]
    ELSE None

\* Faulty variant: the filter is causal and goes on from where the block before
\* left it, as if the two blocks were one.
apply_filter_carrying_state(st, samples, sample_rate) ==
    IF Len(samples) = 0
    THEN [st |-> st, out |-> Ok(samples)]
    ELSE LET d == _design_filter_cached(st, sample_rate)
             before == IF Last # None /\ Last.sample_rate = sample_rate
                       THEN Last.samples ELSE << >>
         IN  IF ~d.out.ok THEN d
             ELSE [st |-> d.st,
                   out |-> Ok(SubSeq(sosfilt(d.out.val, before \o samples),
                                     Len(before) + 1, Len(before) + Len(samples)))]

\* Faulty variant: the coefficients are fetched before the block is looked at.
apply_filter_optimized_designing_first(st, samples, sample_rate) ==
    LET d == _design_filter_cached(st, sample_rate)
    IN  IF ~d.out.ok THEN d
        ELSE IF Len(samples) = 0 THEN [st |-> d.st, out |-> Ok(samples)]
        ELSE [st |-> d.st, out |-> sosfiltfilt(d.out.val, samples)]

apply_filter_optimized(st, samples, sample_rate) ==
    IF Len(samples) = 0
    THEN [st |-> st, out |-> Ok(samples)]
    ELSE LET d == _design_filter_cached(st, sample_rate)
         IN  IF ~d.out.ok THEN d
             ELSE [st |-> d.st, out |-> sosfiltfilt(d.out.val, samples)]

\* Faulty variant: a block that has a signal field gets it filtered.
pass_through_filtering_signal(st, data) ==
    IF "signal" \in DOMAIN data /\ Len(data.signal) > 0
    THEN LET d == _design_filter_cached(st, common_sample_rates[1])
         IN  [st |-> d.st,
              out |-> Ok([data EXCEPT !.signal = sosfilt(d.out.val, data.signal)])]
    ELSE [st |-> st, out |-> Ok(data)]

\* Faulty variant: a block of no handled type is returned tagged "Unknown".
pass_through_tagging(st, data) ==
    [st |-> st, out |-> Ok(Put(data, "type", "Unknown"))]

\* "Pass through other types unchanged": return data
pass_through(st, data) == [st |-> st, out |-> Ok(data)]

\* process_data with two of its choices left open: whether an AudioFrame keeps
\* its tag, and whether the frame number is copied from the input.
process_data_with(st, data, keep_tag, copy_number) ==
    LET data_type == get_type(data) IN
    IF data_type = "SingleChannel" THEN
        LET s == apply_filter_optimized(st, data.samples, data.sample_rate)
        IN  IF ~s.out.ok THEN s
            ELSE [st |-> s.st,
                  out |-> Ok([type |-> "SingleChannel",
                              samples |-> s.out.val,
                              sample_rate |-> data.sample_rate,
                              timestamp |-> data.timestamp,
                              frame_number |-> IF copy_number THEN data.frame_number ELSE 0])]
    ELSE IF data_type \in {"DualChannel", "AudioFrame"} THEN
        LET a == apply_filter_optimized(st, data.channel_a, data.sample_rate)
            b == apply_filter_optimized(a.st, data.channel_b, data.sample_rate)
        IN  IF ~a.out.ok THEN a
            ELSE IF ~b.out.ok THEN b
            ELSE [st |-> b.st,
                  out |-> Ok([type |-> IF keep_tag THEN data_type ELSE "DualChannel",
                              channel_a |-> a.out.val,
                              channel_b |-> b.out.val,
                              sample_rate |-> data.sample_rate,
                              timestamp |-> data.timestamp,
                              frame_number |-> IF copy_number THEN data.frame_number ELSE 0])]
    ELSE pass_through(st, data)

\* Faulty variant: the output block is numbered 0, the frame number of the
\* input is not copied.
process_data_renumbering(st, data) == process_data_with(st, data, FALSE, FALSE)

\* Faulty variant: a call marks the node initialized.
process_data_marking_initialized(st, data) ==
    LET r == process_data_with(st, data, FALSE, TRUE)
    IN  [st |-> [r.st EXCEPT !.initialized = TRUE], out |-> r.out]

\* Faulty variant: an AudioFrame is returned tagged AudioFrame.
process_data_keeping_tag(st, data) == process_data_with(st, data, TRUE, TRUE)

process_data(st, data) ==
    LET data_type == get_type(data) IN
    IF data_type = "SingleChannel" THEN
        LET s == apply_filter_optimized(st, data.samples, data.sample_rate)
        IN  IF ~s.out.ok THEN s
            ELSE [st |-> s.st,
                  out |-> Ok([type |-> "SingleChannel",
                              samples |-> s.out.val,
                              sample_rate |-> data.sample_rate,
                              timestamp |-> data.timestamp,
                              frame_number |-> data.frame_number])]
    ELSE IF data_type = "DualChannel" THEN
        LET sample_rate == data.sample_rate
            a == apply_filter_optimized(st, data.channel_a, sample_rate)
            b == apply_filter_optimized(a.st, data.channel_b, sample_rate)
        IN  IF ~a.out.ok THEN a
            ELSE IF ~b.out.ok THEN b
            ELSE [st |-> b.st,
                  out |-> Ok([type |-> "DualChannel",
                              channel_a |-> a.out.val,
                              channel_b |-> b.out.val,
                              sample_rate |-> sample_rate,
                              timestamp |-> data.timestamp,
                              frame_number |-> data.frame_number])]
    ELSE IF data_type = "AudioFrame" THEN
        LET sample_rate == data.sample_rate
            a == apply_filter_optimized(st, data.channel_a, sample_rate)
            b == apply_filter_optimized(a.st, data.channel_b, sample_rate)
        IN  IF ~a.out.ok THEN a
            ELSE IF ~b.out.ok THEN b
            ELSE [st |-> b.st,
                  out |-> Ok([type |-> "DualChannel",
                              channel_a |-> a.out.val,
                              channel_b |-> b.out.val,
                              sample_rate |-> sample_rate,
                              timestamp |-> data.timestamp,
                              frame_number |-> data.frame_number])]
    ELSE pass_through(st, data)

RECURSIVE initialize_loop(_, _)
initialize_loop(st, i) ==
    \* for sr in common_sample_rates: _filter_cache[sr] = _design_filter_cached(sr)
    IF i > Len(common_sample_rates) THEN [st |-> st, out |-> Ok(None)]
    ELSE LET sr == common_sample_rates[i]
             d  == _design_filter_cached(st, sr)
         IN  IF ~d.out.ok THEN d
             ELSE initialize_loop([d.st EXCEPT !.cache = Put(@, sr, d.out.val)], i + 1)

initialize(st) ==
    LET l == initialize_loop(st, 1)
    IN  IF ~l.out.ok THEN l
        ELSE [st |-> [l.st EXCEPT !.initialized = TRUE],
              out |-> Ok([status |-> "initialized",
                          filter_type |-> "scipy_butterworth_bandpass_optimized",
                          low_freq |-> LOW_FREQ,
                          high_freq |-> HIGH_FREQ,
                          order |-> FILTER_ORDER,
                          cached_sample_rates |-> common_sample_rates])]

\* cached_sample_rates is the list of the dict's keys; the model keeps the
\* keys as a set (the insertion order of the dict is not modelled).
\* Faulty variant: the occupancy reported is that of the pre-computed rates.
get_status_of_common_rates(st) ==
    [st |-> st,
     out |-> Ok([status |-> "active",
                 type |-> "scipy_butterworth_bandpass_optimized",
                 low_freq |-> LOW_FREQ,
                 high_freq |-> HIGH_FREQ,
                 filter_order |-> FILTER_ORDER,
                 cache_size |-> Len(common_sample_rates),
                 cached_sample_rates |-> Range(common_sample_rates),
                 initialized |-> st.initialized,
                 description |-> <<"Optimized Butterworth bandpass filter",
                                   LOW_FREQ, HIGH_FREQ, FILTER_ORDER>>])]

get_status(st) ==
    [st |-> st,
     out |-> Ok([status |-> "active",
                 type |-> "scipy_butterworth_bandpass_optimized",
                 low_freq |-> LOW_FREQ,
                 high_freq |-> HIGH_FREQ,
                 filter_order |-> FILTER_ORDER,
                 cache_size |-> Cardinality(DOMAIN st.cache),
                 cached_sample_rates |-> DOMAIN st.cache,
                 initialized |-> st.initialized,
                 description |-> <<"Optimized Butterworth bandpass filter",
                                   LOW_FREQ, HIGH_FREQ, FILTER_ORDER>>])]

\* Faulty variant: the cache is cleared and the flag is left as it is.
shutdown_keeping_flag(st) ==
    [st |-> [cache |-> << >>,
             initialized |-> st.initialized,
             designs |-> [r \in DOMAIN st.designs |-> 0]],
     out |-> Ok([status |-> "shutdown"])]

\* Faulty variant: the flag is reset and the entries of the cache are kept.
shutdown_keeping_cache(st) ==
    [st |-> [st EXCEPT !.initialized = FALSE],
     out |-> Ok([status |-> "shutdown"])]

shutdown(st) ==
    [st |-> [cache |-> << >>,
             initialized |-> FALSE,
             designs |-> [r \in DOMAIN st.designs |-> 0]],
     out |-> Ok([status |-> "shutdown"])]

(***************************************************************************)
(* The basic node: scipy_bandpass_filter.py.  It keeps no state.           *)
(***************************************************************************)
apply_filter(samples, sample_rate) ==
    IF Len(samples) = 0 THEN Ok(samples)
    ELSE LET sos == design_filter(sample_rate)
         IN  IF ~sos.ok THEN sos ELSE sosfiltfilt(sos.val, samples)

process_data_basic(data) ==
    LET data_type == get_type(data) IN
    IF data_type = "SingleChannel" THEN
        LET filtered_samples == apply_filter(data.samples, data.sample_rate)
        IN  IF ~filtered_samples.ok THEN filtered_samples
            ELSE Ok([type |-> "SingleChannel",
                     samples |-> filtered_samples.val,
                     sample_rate |-> data.sample_rate,
                     timestamp |-> data.timestamp,
                     frame_number |-> data.frame_number])
    ELSE IF data_type = "DualChannel" THEN
        LET filtered_a == apply_filter(data.channel_a, data.sample_rate)
            filtered_b == apply_filter(data.channel_b, data.sample_rate)
        IN  IF ~filtered_a.ok THEN filtered_a
            ELSE IF ~filtered_b.ok THEN filtered_b
            ELSE Ok([type |-> "DualChannel",
                     channel_a |-> filtered_a.val,
                     channel_b |-> filtered_b.val,
                     sample_rate |-> data.sample_rate,
                     timestamp |-> data.timestamp,
                     frame_number |-> data.frame_number])
    ELSE IF data_type = "AudioFrame" THEN
        LET filtered_a == apply_filter(data.channel_a, data.sample_rate)
            filtered_b == apply_filter(data.channel_b, data.sample_rate)
        IN  IF ~filtered_a.ok THEN filtered_a
            ELSE IF ~filtered_b.ok THEN filtered_b
            ELSE Ok([type |-> "DualChannel",
                     channel_a |-> filtered_a.val,
                     channel_b |-> filtered_b.val,
                     sample_rate |-> data.sample_rate,
                     timestamp |-> data.timestamp,
                     frame_number |-> data.frame_number])
    ELSE Ok(data)

(***************************************************************************)
(* The blocks the host hands to process_data.                              *)
(***************************************************************************)
Impulse(n) == [i \in 1..n |-> IF i = 1 THEN 1 ELSE 0]
Alternating(n) == [i \in 1..n |-> IF i % 2 = 1 THEN 2 ELSE -1]

\* The longest block sosfiltfilt refuses, and the shortest it accepts.
ShortLen == 3 * (2 * FILTER_ORDER + 1)
LongLen == ShortLen + 1

Signals == {<< >>, <<3>>, Impulse(ShortLen), Impulse(LongLen)}
ChannelPairs ==
    { <<Impulse(LongLen), Alternating(LongLen)>>, <<Impulse(LongLen), <<3>>>>,
      << << >>, Impulse(LongLen)>>, << << >>, << >> >> }

\* 600 Hz: a rate below 2 * LOW_FREQ; 8000 Hz: a rate initialize does not pre-compute.
BlockRates == {600, 8000, 48000}
PairRates == {600, 48000}
AllRates == Range(common_sample_rates) \cup BlockRates

Blocks ==
    {[type |-> "SingleChannel", samples |-> s, sample_rate |-> r,
      timestamp |-> 1000, frame_number |-> 1] : s \in Signals, r \in BlockRates}
    \cup
    {[type |-> t, channel_a |-> p[1], channel_b |-> p[2], sample_rate |-> r,
      timestamp |-> 1000, frame_number |-> 1] :
        t \in {"DualChannel", "AudioFrame"}, p \in ChannelPairs, r \in PairRates}
    \cup
    {[type |-> "SingleChannel", samples |-> Alternating(LongLen), sample_rate |-> 8000,
      timestamp |-> 2000, frame_number |-> 2]}
    \cup
    {[type |-> t, channel_a |-> Alternating(LongLen), channel_b |-> Impulse(LongLen),
      sample_rate |-> 48000, timestamp |-> 2000, frame_number |-> 2] :
        t \in {"DualChannel", "AudioFrame"}}
    \cup
    {[type |-> "PhotoacousticResult", signal |-> s, metadata |-> m] :
        s \in {<< >>, Impulse(LongLen)}, m \in {"m1", "m2"}}
    \cup
    {[type |-> "Spectrum", bins |-> <<1, 2>>], [bins |-> <<1, 2>>]}

(***************************************************************************)
(* gen_bandpass_reference_values.py: the strict design of the harness.     *)
(*   low_norm  = (center_freq - bandwidth / 2) / (sample_rate / 2)         *)
(*   high_norm = (center_freq + bandwidth / 2) / (sample_rate / 2)         *)
(* as numerators over 1000 * sample_rate.                                  *)
(***************************************************************************)
\* Faulty variant: the strict design clamps, as design_filter does, instead of raising.
design_scipy_bandpass_filter_clamping(order, center_freq, bandwidth, sample_rate) ==
    LET low_norm  == 2000 * center_freq - 1000 * bandwidth
        high_norm == 2000 * center_freq + 1000 * bandwidth
        low_c     == Max(sample_rate, Min(999 * sample_rate, low_norm))
        high_c    == Max(low_c + sample_rate, Min(999 * sample_rate, high_norm))
    IN  butter(order, low_c, high_c, 1000 * sample_rate)

\* Faulty variant: the design is made one order higher than requested.
design_scipy_bandpass_filter_next_order(order, center_freq, bandwidth, sample_rate) ==
    LET low_norm  == 2000 * center_freq - 1000 * bandwidth
        high_norm == 2000 * center_freq + 1000 * bandwidth
        den       == 1000 * sample_rate
    IN  IF low_norm <= 0 \/ high_norm >= den
        THEN Raise("ValueError", "Frequencies out of range")
        ELSE butter(order + 1, low_norm, high_norm, den)

design_scipy_bandpass_filter(order, center_freq, bandwidth, sample_rate) ==
    LET low_norm  == 2000 * center_freq - 1000 * bandwidth
        high_norm == 2000 * center_freq + 1000 * bandwidth
        den       == 1000 * sample_rate
    IN  IF low_norm <= 0 \/ high_norm >= den
        THEN Raise("ValueError", "Frequencies out of range")
        ELSE butter(order, low_norm, high_norm, den)

\* The configurations the harness is run with: the one in the file
\* (1000 Hz, 200 Hz, 48000 Hz) and others, among them bands that reach 0 Hz
\* or the Nyquist frequency.  Every bandwidth is positive.
HarnessConfigs ==
    {[center_freq |-> c, bandwidth |-> b, sample_rate |-> s, orders |-> ORDERS] :
        c \in {100, CENTER_FREQ, 2000, 23900},
        b \in {BANDWIDTH, 400, 2000},
        s \in {8000, 44100, SAMPLE_RATE}}

\* The key f'order_{order}' of the filters mapping.
order_label(order) == <<"order", order>>

(***************************************************************************)
(* A Python dict keeps its keys in the order they were inserted, and       *)
(* json.dump writes them in that order: a dict is the sequence of its      *)
(* <<key, value>> pairs.  Two dicts are equal (==) when they map the same  *)
(* keys to the same values, in whatever order: when their as_map agree.    *)
(***************************************************************************)
dict_keys(d) == [i \in 1..Len(d) |-> d[i][1]]
dict_get(d, k) == d[CHOOSE i \in 1..Len(d) : d[i][1] = k][2]
dict_set(d, k, v) ==
    IF \E i \in 1..Len(d) : d[i][1] = k
    THEN [i \in 1..Len(d) |-> IF d[i][1] = k THEN <<k, v>> ELSE d[i]]
    ELSE Append(d, <<k, v>>)
as_map(d) == [k \in Range(dict_keys(d)) |-> dict_get(d, k)]

(***************************************************************************)
(* create_test_signals().  Samples are integers, in thousandths.           *)
(*   sin1000(pm)  1000 * sin(2 pi pm / 1000), by Bhaskara's approximation  *)
(*   tone         sin(2 pi freq t), t = i / sample_rate, i = 0, 1, ...     *)
(*   normal       np.random.normal: the draws advance the global state of  *)
(*                the generator (a small congruential generator stands for *)
(*                numpy's); np.random.seed(42) sets that state to 42.      *)
(***************************************************************************)
sin1000(pm) ==
    LET x == pm % 500
        q == x * (500 - x)
        v == (16000 * q) \div (1250000 - 4 * q)
    IN  IF pm < 500 THEN v ELSE -v

tone(freq, sample_rate, n) ==
    [k \in 1..n |-> sin1000(((1000 * freq * (k - 1)) \div sample_rate) % 1000)]

rng_next(s) == (5 * s + 3) % 64

RECURSIVE normal(_, _)
normal(s, n) ==
    IF n = 0 THEN [rng |-> s, out |-> << >>]
    ELSE LET s1 == rng_next(s)
             r  == normal(s1, n - 1)
         IN  [rng |-> r.rng, out |-> <<(s1 % 21) - 10>> \o r.out]

\* Faulty variant: the generator is not seeded, the noise is drawn from the
\* state the generator happens to be in.
create_test_signals_unseeded(rng, cfg) ==
    LET sr == cfg.sample_rate
        cf == cfg.center_freq
        bw == cfg.bandwidth
        noise == normal(rng, SignalLen)
        low_tone == tone(500, sr, SignalLen)
        mid_tone == tone(cf, sr, SignalLen)
        high_tone == tone(2000, sr, SignalLen)
    IN  [rng |-> noise.rng,
         out |-> << <<"center_freq", tone(cf, sr, SignalLen)>>,
                    <<"in_band", tone(cf + (bw \div 4), sr, SignalLen)>>,
                    <<"out_of_band_low", tone(cf - bw, sr, SignalLen)>>,
                    <<"out_of_band_high", tone(cf + bw, sr, SignalLen)>>,
                    <<"impulse", [k \in 1..SignalLen |-> IF k = 1 THEN 1000 ELSE 0]>>,
                    <<"white_noise", noise.out>>,
                    <<"multi_freq",
                      [k \in 1..SignalLen |-> low_tone[k] + mid_tone[k] + high_tone[k]]>> >>]

create_test_signals(rng, cfg) ==
    LET sr == cfg.sample_rate
        cf == cfg.center_freq
        bw == cfg.bandwidth
        noise == normal(42, SignalLen)
        low_tone == tone(500, sr, SignalLen)
        mid_tone == tone(cf, sr, SignalLen)
        high_tone == tone(2000, sr, SignalLen)
    IN  [rng |-> noise.rng,
         out |-> << <<"center_freq", tone(cf, sr, SignalLen)>>,
                    <<"in_band", tone(cf + (bw \div 4), sr, SignalLen)>>,
                    <<"out_of_band_low", tone(cf - bw, sr, SignalLen)>>,
                    <<"out_of_band_high", tone(cf + bw, sr, SignalLen)>>,
                    <<"impulse", [k \in 1..SignalLen |-> IF k = 1 THEN 1000 ELSE 0]>>,
                    <<"white_noise", noise.out>>,
                    <<"multi_freq",
                      [k \in 1..SignalLen |-> low_tone[k] + mid_tone[k] + high_tone[k]]>> >>]

(***************************************************************************)
(* compute_frequency_response(sos, sample_rate): signal.sosfreqz at        *)
(* NumPoints frequencies from 0 Hz up to, not including, the Nyquist       *)
(* frequency.  The complex response is not computed: the magnitude (in     *)
(* thousandths) is that of an ideal band, 1000 inside the band, 707 at its *)
(* edges and 0 outside, and the phase is 0.                                *)
(***************************************************************************)
\* Faulty variant: the phase sequence is one point short.
compute_frequency_response_short_phase(sos, sample_rate) ==
    LET w == [k \in 1..NumPoints |-> ((k - 1) * sample_rate) \div (2 * NumPoints)]
        h == [k \in 1..NumPoints |->
                IF sos.low < 2000 * w[k] /\ 2000 * w[k] < sos.high THEN 1000
                ELSE IF 2000 * w[k] \in {sos.low, sos.high} THEN 707
                ELSE 0]
    IN  [frequencies |-> w, magnitude |-> h, phase |-> [k \in 1..(NumPoints - 1) |-> 0]]

compute_frequency_response(sos, sample_rate) ==
    LET w == [k \in 1..NumPoints |-> ((k - 1) * sample_rate) \div (2 * NumPoints)]
        h == [k \in 1..NumPoints |->
                IF sos.low < 2000 * w[k] /\ 2000 * w[k] < sos.high THEN 1000
                ELSE IF 2000 * w[k] \in {sos.low, sos.high} THEN 707
                ELSE 0]
    IN  [frequencies |-> w, magnitude |-> h, phase |-> [k \in 1..NumPoints |-> 0]]

\* Faulty variant: every signal is filtered forward and backward (zero-phase).
process_signals_with_filter_zero_phase(signals, sos) ==
    [i \in 1..Len(signals) |->
        <<signals[i][1], Reverse(sosfilt(sos, Reverse(sosfilt(sos, signals[i][2]))))>>]

\* Faulty variant: the signals filtered for an order are the outputs of the
\* order processed before it.
process_signals_with_filter_chaining(signals, sos) ==
    LET input == IF reference_data # None /\ Len(reference_data.filters) > 0
                 THEN reference_data.filters[Len(reference_data.filters)][2].processed_signals
                 ELSE signals
    IN  [i \in 1..Len(input) |-> <<input[i][1], sosfilt(sos, input[i][2])>>]

\* Faulty variant: the noise signal is left out of the outputs.
process_signals_with_filter_skipping_noise(signals, sos) ==
    LET kept == SelectSeq(signals, LAMBDA pair : pair[1] # "white_noise")
    IN  [i \in 1..Len(kept) |-> <<kept[i][1], sosfilt(sos, kept[i][2])>>]

\* process_signals_with_filter(signals, sos): signal.sosfilt on every signal.
process_signals_with_filter(signals, sos) ==
    [i \in 1..Len(signals) |-> <<signals[i][1], sosfilt(sos, signals[i][2])>>]

\* The body of "for order in ORDERS" in generate_reference_data: the entry of
\* the filters mapping for one order, or the exception of the design.
order_entry(order, test_signals, cfg) ==
    LET sos == design_scipy_bandpass_filter(order, cfg.center_freq, cfg.bandwidth,
                                            cfg.sample_rate)
    IN  IF ~sos.ok THEN sos
        ELSE Ok([sos_coefficients |-> sos.val,
                 frequency_response |-> compute_frequency_response(sos.val, cfg.sample_rate),
                 processed_signals |-> process_signals_with_filter(test_signals, sos.val)])

\* json.dump(data, f, indent=2): the document, every mapping written as its
\* pairs in insertion order.
json_dump(data) ==
    << <<"config", << <<"sample_rate", data.config.sample_rate>>,
                      <<"center_freq", data.config.center_freq>>,
                      <<"bandwidth", data.config.bandwidth>>,
                      <<"signal_length", data.config.signal_length>> >> >>,
       <<"test_signals", data.test_signals>>,
       <<"filters",
         [i \in 1..Len(data.filters) |->
            <<data.filters[i][1],
              << <<"sos_coefficients", data.filters[i][2].sos_coefficients>>,
                 <<"frequency_response",
                   << <<"frequencies", data.filters[i][2].frequency_response.frequencies>>,
                      <<"magnitude", data.filters[i][2].frequency_response.magnitude>>,
                      <<"phase", data.filters[i][2].frequency_response.phase>> >> >>,
                 <<"processed_signals", data.filters[i][2].processed_signals>> >> >>] >> >>

(***************************************************************************)
(* validate_filter_performance(reference_data).  It reads the frequency    *)
(* response of every order into numpy arrays and prints diagnostics.       *)
(* numpy's float division and logarithm do not raise: a zero divisor gives *)
(* inf or nan (with a warning).  A float is kept as [kind, value]: kind is *)
(* "finite", "inf", "-inf" or "nan"; a decibel value or a slope is kept as *)
(* the ratio (in thousandths) it is the logarithm of.                      *)
(***************************************************************************)
float_div(a, b) ==
    IF b # 0 THEN [kind |-> "finite", value |-> (1000 * a) \div b]
    ELSE IF a = 0 THEN [kind |-> "nan", value |-> 0]
    ELSE [kind |-> "inf", value |-> 0]

\* np.log10 of a ratio that is not negative
log10_ratio(r) ==
    IF r.kind = "finite" /\ r.value = 0 THEN [kind |-> "-inf", value |-> 0] ELSE r

Abs(x) == IF x >= 0 THEN x ELSE -x

\* np.argmin(np.abs(freqs - target)): the first index of the least distance
argmin_abs(freqs, target) ==
    CHOOSE i \in 1..Len(freqs) :
        /\ \A j \in 1..Len(freqs) : Abs(freqs[i] - target) <= Abs(freqs[j] - target)
        /\ \A j \in 1..(i - 1) : Abs(freqs[j] - target) > Abs(freqs[i] - target)

\* What the body of "for order in ORDERS" prints for one order.
validation_line(order, filter_data, cfg) ==
    LET freqs     == filter_data.frequency_response.frequencies
        magnitude == filter_data.frequency_response.magnitude
        low_edge  == cfg.center_freq - (cfg.bandwidth \div 2)
        high_edge == cfg.center_freq + (cfg.bandwidth \div 2)
        center_magnitude      == magnitude[argmin_abs(freqs, cfg.center_freq)]
        low_cutoff_magnitude  == magnitude[argmin_abs(freqs, low_edge)]
        high_cutoff_magnitude == magnitude[argmin_abs(freqs, high_edge)]
        \* target_magnitude = center_magnitude * 10 ** (-20 / 20)
        low_side_idx == {i \in 1..Len(freqs) :
                            freqs[i] < cfg.center_freq /\ 10 * magnitude[i] < center_magnitude}
        low_20db_freq == freqs[CHOOSE i \in low_side_idx : \A j \in low_side_idx : j <= i]
    IN  [order |-> order,
         center_magnitude |-> center_magnitude,
         low_cutoff_db  |-> log10_ratio(float_div(low_cutoff_magnitude, center_magnitude)),
         high_cutoff_db |-> log10_ratio(float_div(high_cutoff_magnitude, center_magnitude)),
         low_slope |-> IF low_side_idx # {} /\ low_edge - low_20db_freq > 0
                       THEN LET freq_ratio == float_div(low_edge, low_20db_freq)
                            IN  IF freq_ratio.kind = "inf"
                                THEN [kind |-> "finite", value |-> 0]
                                ELSE freq_ratio
                       ELSE None]

\* Faulty variant: the magnitudes are divided as Python floats, and a zero
\* magnitude at the centre frequency raises ZeroDivisionError.
validate_filter_performance_dividing(data, cfg) ==
    IF \E i \in 1..Len(cfg.orders) :
           order_label(cfg.orders[i]) \notin Range(dict_keys(data.filters))
    THEN [data |-> data, out |-> Raise("KeyError", "order")]
    ELSE LET lines == [i \in 1..Len(cfg.orders) |->
                          validation_line(cfg.orders[i],
                                          dict_get(data.filters, order_label(cfg.orders[i])), cfg)]
         IN  IF \E i \in 1..Len(lines) : lines[i].center_magnitude = 0
             THEN [data |-> data, out |-> Raise("ZeroDivisionError", "float division by zero")]
             ELSE [data |-> data, out |-> Ok(lines)]

\* The dataset it leaves, and the lines it printed or the exception.
validate_filter_performance(data, cfg) ==
    IF \E i \in 1..Len(cfg.orders) :
           order_label(cfg.orders[i]) \notin Range(dict_keys(data.filters))
    THEN [data |-> data, out |-> Raise("KeyError", "order")]
    ELSE [data |-> data,
          out |-> Ok([i \in 1..Len(cfg.orders) |->
                         validation_line(cfg.orders[i],
                                         dict_get(data.filters, order_label(cfg.orders[i])), cfg)])]

(***************************************************************************)
(* The action script: tests/test_scripts/advanced_action.py.               *)
(*                                                                         *)
(* The ActionState instance is a record st with the fields initialized,    *)
(* start_time, measurements, alerts and statistics; the two deques are     *)
(* sequences, oldest record first.  A value that may be Python's None is   *)
(* None or Some(v).  time.time() is the argument now.  A mean is the exact *)
(* fraction [num, den]; round(x, 2) is the number of hundredths.  Every    *)
(* function of the script catches its exceptions, so each operator returns *)
(* [st |-> the state it leaves, out |-> the dict it returns].  The names   *)
(* initialize, get_status and shutdown are taken by the filter node: the   *)
(* script's functions are action_initialize, action_get_status and         *)
(* action_shutdown.                                                        *)
(***************************************************************************)
Some(v) == [none |-> FALSE, val |-> v]

\* self.thresholds
thresholds == [low |-> 500, medium |-> 1000, high |-> 1500, critical |-> 2000]

\* ActionState.__init__
ActionState ==
    [initialized |-> FALSE,
     start_time  |-> None,
     measurements |-> << >>,
     alerts      |-> << >>,
     statistics  |-> [total_measurements |-> 0,
                      total_alerts       |-> 0,
                      avg_concentration  |-> [num |-> 0, den |-> 1],
                      min_concentration  |-> None,
                      max_concentration  |-> None]]

\* Faulty variant: a full deque refuses the new record instead of dropping
\* its oldest one.
deque_append_dropping_newest(buf, x, maxlen) ==
    IF Len(buf) >= maxlen THEN buf ELSE Append(buf, x)

\* deque(maxlen=...).append(x): a full deque drops its oldest record
deque_append(buf, x, maxlen) ==
    IF Len(buf) >= maxlen THEN Tail(buf) \o <<x>> ELSE Append(buf, x)

\* data.get(key, default)
dict_get_default(data, key, default) ==
    IF key \in DOMAIN data THEN data[key] ELSE default

RECURSIVE sum(_)
sum(xs) == IF xs = << >> THEN 0 ELSE Head(xs) + sum(Tail(xs))

\* statistics.mean of a non-empty list
mean(xs) == [num |-> sum(xs), den |-> Len(xs)]

\* statistics.median of a non-empty list
median(xs) ==
    LET s == SortSeq(xs, LAMBDA a, b : a < b)
        n == Len(xs)
    IN  IF n % 2 = 1 THEN [num |-> s[(n + 1) \div 2], den |-> 1]
        ELSE [num |-> s[n \div 2] + s[n \div 2 + 1], den |-> 2]

\* round(x, 2) of a non-negative fraction, in hundredths
round2(x) == (200 * x.num + x.den) \div (2 * x.den)

seq_min(xs) == CHOOSE m \in Range(xs) : \A x \in Range(xs) : m <= x
seq_max(xs) == CHOOSE m \in Range(xs) : \A x \in Range(xs) : m >= x

\* list(d)[-k:]
last_k(xs, k) == SubSeq(xs, Max(1, Len(xs) - k + 1), Len(xs))

\* list(d)[-10:-5]
older_five(xs) == SubSeq(xs, Max(1, Len(xs) - 9), Len(xs) - 5)

get_concentration_level(concentration) ==
    IF concentration >= thresholds.critical THEN "critical"
    ELSE IF concentration >= thresholds.high THEN "high"
    ELSE IF concentration >= thresholds.medium THEN "medium"
    ELSE IF concentration >= thresholds.low THEN "low"
    ELSE "normal"

action_initialize(st, now) ==
    [st  |-> [st EXCEPT !.initialized = TRUE, !.start_time = Some(now)],
     out |-> [status |-> "ready", timestamp |-> now,
              features |-> <<"statistics", "thresholds", "buffering">>]]

\* The record on_measurement builds from its argument.
measurement_record(data, now) ==
    [concentration |-> data.concentration_ppm,
     timestamp |-> dict_get_default(data, "timestamp", now),
     source    |-> dict_get_default(data, "source_node_id", "unknown"),
     amplitude |-> dict_get_default(data, "peak_amplitude", 0),
     frequency |-> dict_get_default(data, "peak_frequency", 0)]

\* The trend of the buffered concentrations cs.
trend_of(cs) ==
    IF Len(cs) >= 5
    THEN LET recent_avg == mean(last_k(cs, 5))
             older_avg  == IF Len(cs) >= 10 THEN mean(older_five(cs)) ELSE recent_avg
         IN  IF 10 * recent_avg.num * older_avg.den > 11 * older_avg.num * recent_avg.den
             THEN "rising"
             ELSE IF 10 * recent_avg.num * older_avg.den < 9 * older_avg.num * recent_avg.den
             THEN "falling"
             ELSE "stable"
    ELSE "stable"

\* A key the code adds to its result only in some cases (warning here,
\* actions in on_alert) is a field that is None in the other cases.
on_measurement(st, data, now) ==
    LET counted == [st EXCEPT !.statistics.total_measurements = @ + 1]
    IN  IF "concentration_ppm" \notin DOMAIN data
        THEN [st |-> counted, out |-> [processed |-> FALSE, error |-> "'concentration_ppm'"]]
        ELSE
        LET concentration == data.concentration_ppm
            buffered == deque_append(counted.measurements, measurement_record(data, now),
                                    MeasurementsMaxLen)
            concentrations == [i \in 1..Len(buffered) |-> buffered[i].concentration]
            stats == [counted.statistics EXCEPT
                         !.avg_concentration = mean(concentrations),
                         !.min_concentration = Some(seq_min(concentrations)),
                         !.max_concentration = Some(seq_max(concentrations))]
            level == get_concentration_level(concentration)
            result == [processed |-> TRUE,
                       measurement_number |-> stats.total_measurements,
                       concentration_level |-> level,
                       trend |-> trend_of(concentrations),
                       statistics |-> [current |-> concentration,
                                       average |-> round2(stats.avg_concentration),
                                       minimum |-> stats.min_concentration,
                                       maximum |-> stats.max_concentration,
                                       median  |-> round2(median(concentrations)),
                                       count   |-> Len(concentrations)],
                       timestamp |-> now,
                       warning |-> IF level \in {"high", "critical"}
                                   THEN Some(thresholds[level]) ELSE None]
        IN  [st  |-> [counted EXCEPT !.measurements = buffered, !.statistics = stats],
             out |-> result]

\* The record on_alert builds from its argument.
alert_record(alert, now) ==
    [type      |-> dict_get_default(alert, "alert_type", "unknown"),
     severity  |-> dict_get_default(alert, "severity", "info"),
     message   |-> dict_get_default(alert, "message", ""),
     timestamp |-> dict_get_default(alert, "timestamp", now),
     data      |-> dict_get_default(alert, "data", << >>)]

\* response["actions"], set for three alert types only
alert_actions(alert_type) ==
    IF alert_type = "concentration_high"
    THEN Some(<<"increase_ventilation", "notify_operators">>)
    ELSE IF alert_type = "sensor_fault"
    THEN Some(<<"switch_backup_sensor", "schedule_maintenance">>)
    ELSE IF alert_type = "calibration_needed"
    THEN Some(<<"initiate_cal_sequence", "log_drift_data">>)
    ELSE None

\* len([r for r in buf if time.time() - r["timestamp"] < window])
recent_count(buf, now, window) ==
    Cardinality({i \in 1..Len(buf) : now - buf[i].timestamp < window})

on_alert(st, alert, now) ==
    LET counted  == [st EXCEPT !.statistics.total_alerts = @ + 1]
        record   == alert_record(alert, now)
        buffered == deque_append(counted.alerts, record, AlertsMaxLen)
    IN  [st  |-> [counted EXCEPT !.alerts = buffered],
         out |-> [alert_handled |-> TRUE,
                  alert_number |-> counted.statistics.total_alerts,
                  severity |-> record.severity,
                  response_time_ms |-> 50,
                  alert_frequency_5min |-> recent_count(buffered, now, 300),
                  timestamp |-> now,
                  actions |-> alert_actions(record.type)]]

clear_action(st, now) ==
    [st  |-> st,
     out |-> [cleared |-> TRUE,
              preserved_stats |->
                  [total_measurements_before_clear |-> st.statistics.total_measurements,
                   total_alerts_before_clear |-> st.statistics.total_alerts,
                   avg_concentration_before_clear |-> st.statistics.avg_concentration,
                   clear_timestamp |-> now],
              measurements_in_buffer |-> Len(st.measurements),
              alerts_in_buffer |-> Len(st.alerts),
              timestamp |-> now]]

\* time.time() - (state.start_time or time.time())
uptime_of(st, now) ==
    IF st.start_time = None \/ st.start_time.val = 0 THEN 0 ELSE now - st.start_time.val

\* json.dumps(status, indent=2) of the status dict
action_get_status(st, now) ==
    LET uptime == uptime_of(st, now)
        measurement_rate == [num |-> 60 * st.statistics.total_measurements,
                             den |-> Max(uptime, 1)]
        alert_rate == [num |-> 60 * st.statistics.total_alerts, den |-> Max(uptime, 1)]
    IN  [st  |-> st,
         out |-> [json |->
                  [driver_status |-> "active",
                   initialized |-> st.initialized,
                   uptime_seconds |-> 100 * uptime,
                   performance |->
                       [measurement_rate_per_minute |-> round2(measurement_rate),
                        alert_rate_per_minute |-> round2(alert_rate),
                        recent_measurements_1min |-> recent_count(st.measurements, now, 60),
                        recent_alerts_1min |-> recent_count(st.alerts, now, 60)],
                   statistics |-> st.statistics,
                   buffers |-> [measurements_count |-> Len(st.measurements),
                                measurements_capacity |-> MeasurementsMaxLen,
                                alerts_count |-> Len(st.alerts),
                                alerts_capacity |-> AlertsMaxLen],
                   thresholds |-> thresholds,
                   health |-> IF alert_rate.num < alert_rate.den THEN "good" ELSE "degraded",
                   timestamp |-> now]]]

action_shutdown(st, now) ==
    LET stamps == [i \in 1..Len(st.measurements) |-> st.measurements[i].timestamp]
    IN  [st  |-> st,
         out |-> [shutdown_status |-> "complete",
                  session_summary |->
                      [uptime_seconds |-> 100 * uptime_of(st, now),
                       total_measurements |-> st.statistics.total_measurements,
                       total_alerts |-> st.statistics.total_alerts,
                       final_statistics |-> st.statistics,
                       peak_concentration |-> st.statistics.max_concentration,
                       average_concentration |-> round2(st.statistics.avg_concentration)],
                  data_summary |->
                      [measurements_in_buffer |-> Len(st.measurements),
                       alerts_in_buffer |-> Len(st.alerts),
                       oldest_measurement |->
                           IF stamps = << >> THEN None ELSE Some(seq_min(stamps)),
                       newest_measurement |->
                           IF stamps = << >> THEN None ELSE Some(seq_max(stamps))],
                  shutdown_timestamp |-> now]]

\* The arguments the driver passes to on_measurement: with or without the
\* optional keys, and one without concentration_ppm.
MeasurementInputs ==
    { [concentration_ppm |-> 100],
      [concentration_ppm |-> 1600, source_node_id |-> "sensor", timestamp |-> -1000],
      [source_node_id |-> "sensor"] }

\* The arguments the driver passes to on_alert.
AlertInputs ==
    { [alert_type |-> "concentration_high", severity |-> "critical", message |-> "high"],
      [message |-> "note", timestamp |-> -1000] }

(***************************************************************************)
(* Initial states.                                                         *)
(***************************************************************************)
Callers == 1..NumCallers
RngStates == 0..MaxRngState

State == [cache |-> filter_cache, initialized |-> initialized, designs |-> designs]

\* state = ActionState(), and nothing called yet
ActionInit ==
    /\ state = ActionState
    /\ clock = 0
    /\ action_call = "none"
    /\ action_ret = None
    /\ accepted_measurements = << >>
    /\ accepted_alerts = << >>

NodeInit ==
    /\ filter_cache = << >>
    /\ initialized = FALSE
    /\ designs = [r \in AllRates |-> 0]
    /\ call = "none"
    /\ arg = None
    /\ ret = Ok(None)
    /\ prev = None

ConcInit ==
    /\ caller_pc = [t \in Callers |-> "idle"]
    /\ caller_rate = [t \in Callers |-> 0]
    /\ caller_sos = [t \in Callers |-> Ok(None)]

HarnessIdle ==
    /\ harness_pc = "start"
    /\ order_index = 1
    /\ reference_data = None
    /\ last_design = None
    /\ report = << >>
    /\ saved_file = None

Init ==
    /\ NodeInit
    /\ ConcInit
    /\ config = [center_freq |-> CENTER_FREQ, bandwidth |-> BANDWIDTH,
                 sample_rate |-> SAMPLE_RATE, orders |-> ORDERS]
    /\ rng_state = 0
    /\ HarnessIdle
    /\ ActionInit

Commit(r, name, a) ==
    /\ \A x \in AllRates : r.st.designs[x] <= MaxDesigns
    /\ filter_cache' = r.st.cache
    /\ initialized' = r.st.initialized
    /\ designs' = r.st.designs
    /\ call' = name
    /\ arg' = a
    /\ ret' = r.out

(***************************************************************************)
(* Spec: the host invokes the callbacks of the nodes one at a time, in any *)
(* order, with any block.                                                  *)
(***************************************************************************)
Initialize ==
    /\ Commit(initialize(State), "initialize", None)
    /\ UNCHANGED <<prev, concVars, harnessVars, actionVars>>

ProcessData ==
    /\ \E data \in Blocks : Commit(process_data(State, data), "process_data", data)
    /\ UNCHANGED <<prev, concVars, harnessVars, actionVars>>

GetStatus ==
    /\ Commit(get_status(State), "get_status", None)
    /\ UNCHANGED <<prev, concVars, harnessVars, actionVars>>

Shutdown ==
    /\ Commit(shutdown(State), "shutdown", None)
    /\ UNCHANGED <<prev, concVars, harnessVars, actionVars>>

BasicProcessData ==
    /\ \E data \in Blocks :
         Commit([st |-> State, out |-> process_data_basic(data)], "basic.process_data", data)
    /\ UNCHANGED <<prev, concVars, harnessVars, actionVars>>

Next == Initialize \/ ProcessData \/ GetStatus \/ Shutdown \/ BasicProcessData

Spec == Init /\ [][Next]_vars

(***************************************************************************)
(* SpecStream: the host feeds the optimized node a stream of SingleChannel *)
(* blocks; prev keeps the block before the last one and its output.        *)
(***************************************************************************)
StreamBlocks ==
    {[type |-> "SingleChannel", samples |-> s, sample_rate |-> r,
      timestamp |-> 1000, frame_number |-> 1] :
        s \in {<< >>, <<3>>, Impulse(LongLen), Alternating(LongLen)}, r \in BlockRates}

StreamProcessData ==
    /\ \E data \in StreamBlocks : Commit(process_data(State, data), "process_data", data)
    /\ prev' = Last
    /\ UNCHANGED <<concVars, harnessVars, actionVars>>

StreamShutdown ==
    /\ Commit(shutdown(State), "shutdown", None)
    /\ prev' = None
    /\ UNCHANGED <<concVars, harnessVars, actionVars>>

StreamNext == StreamProcessData \/ StreamShutdown

SpecStream == Init /\ [][StreamNext]_vars

(***************************************************************************)
(* SpecConc: several callers run _design_filter_cached at the same time.   *)
(* The function takes no lock; a caller can be preempted between the       *)
(* membership test (line 80), the design (lines 83-92) and the insert      *)
(* (line 95).                                                              *)
(***************************************************************************)
CallerEnter(t) ==
    /\ caller_pc[t] = "idle"
    /\ \E r \in BlockRates :
        /\ designs[r] < MaxDesigns
        /\ caller_rate' = [caller_rate EXCEPT ![t] = r]
    /\ caller_pc' = [caller_pc EXCEPT ![t] = "check"]
    /\ UNCHANGED <<nodeVars, callVars, prev, caller_sos, harnessVars, actionVars>>

\* if sample_rate in _filter_cache: return _filter_cache[sample_rate]
CallerCheck(t) ==
    /\ caller_pc[t] = "check"
    /\ IF caller_rate[t] \in DOMAIN filter_cache
       THEN /\ caller_sos' = [caller_sos EXCEPT ![t] = Ok(filter_cache[caller_rate[t]])]
            /\ caller_pc' = [caller_pc EXCEPT ![t] = "idle"]
       ELSE /\ caller_pc' = [caller_pc EXCEPT ![t] = "design"]
            /\ UNCHANGED caller_sos
    /\ UNCHANGED <<nodeVars, callVars, prev, caller_rate, harnessVars, actionVars>>

\* the clamping and sos = signal.butter(...)
CallerDesign(t) ==
    /\ caller_pc[t] = "design"
    /\ LET c   == clamp_norm(LOW_FREQ, HIGH_FREQ, caller_rate[t])
           sos == butter(FILTER_ORDER, c.low, c.high, c.den)
       IN  /\ caller_sos' = [caller_sos EXCEPT ![t] = sos]
           /\ caller_pc' = [caller_pc EXCEPT ![t] = IF sos.ok THEN "store" ELSE "idle"]
    /\ designs' = [designs EXCEPT ![caller_rate[t]] = @ + 1]
    /\ UNCHANGED <<filter_cache, initialized, callVars, prev, caller_rate, harnessVars, actionVars>>

\* _filter_cache[sample_rate] = sos; return sos
CallerStore(t) ==
    /\ caller_pc[t] = "store"
    /\ filter_cache' = Put(filter_cache, caller_rate[t], caller_sos[t].val)
    /\ caller_pc' = [caller_pc EXCEPT ![t] = "idle"]
    /\ UNCHANGED <<initialized, designs, callVars, prev, caller_rate, caller_sos, harnessVars, actionVars>>

ConcNext ==
    \E t \in Callers : CallerEnter(t) \/ CallerCheck(t) \/ CallerDesign(t) \/ CallerStore(t)

SpecConc == Init /\ [][ConcNext]_vars

(***************************************************************************)
(* SpecHarness: one run of gen_bandpass_reference_values.py (__main__),    *)
(* for each configuration of HarnessConfigs.                               *)
(***************************************************************************)
HarnessInit ==
    /\ NodeInit
    /\ ConcInit
    /\ config \in HarnessConfigs
    /\ rng_state \in RngStates
    /\ HarnessIdle
    /\ ActionInit

\* generate_reference_data(), up to the loop over ORDERS
GenerateStart ==
    /\ harness_pc = "start"
    /\ LET t == create_test_signals(rng_state, config)
       IN  /\ rng_state' = t.rng
           /\ reference_data' =
                 [config |-> [sample_rate |-> config.sample_rate,
                              center_freq |-> config.center_freq,
                              bandwidth |-> config.bandwidth,
                              signal_length |-> SignalLen],
                  test_signals |-> t.out,
                  filters |-> << >>]
    /\ order_index' = 1
    /\ harness_pc' = "orders"
    /\ UNCHANGED <<nodeVars, callVars, prev, concVars, actionVars, config, last_design, report, saved_file>>

\* One turn of "for order in ORDERS".  An exception of the design is not
\* caught anywhere: it leaves generate_reference_data and ends the script.
GenerateOrder ==
    /\ harness_pc = "orders"
    /\ order_index <= Len(config.orders)
    /\ LET order == config.orders[order_index]
           sos   == design_scipy_bandpass_filter(order, config.center_freq,
                                                 config.bandwidth, config.sample_rate)
           entry == order_entry(order, reference_data.test_signals, config)
       IN  /\ last_design' = [designer |-> "design_scipy_bandpass_filter",
                              order |-> order, out |-> sos]
           /\ IF entry.ok
              THEN /\ reference_data' =
                        [reference_data EXCEPT !.filters =
                            dict_set(@, order_label(order), entry.val)]
                   /\ order_index' = order_index + 1
                   /\ harness_pc' = "orders"
              ELSE /\ reference_data' = None
                   /\ order_index' = order_index
                   /\ harness_pc' = "aborted"
    /\ UNCHANGED <<nodeVars, callVars, prev, concVars, actionVars, config, rng_state, report, saved_file>>

\* return reference_data
GenerateReturn ==
    /\ harness_pc = "orders"
    /\ order_index > Len(config.orders)
    /\ harness_pc' = "generated"
    /\ UNCHANGED <<nodeVars, callVars, prev, concVars, actionVars, config, rng_state, order_index,
                   reference_data, last_design, report, saved_file>>

\* validate_filter_performance(reference_data)
ValidateFilterPerformance ==
    /\ harness_pc = "generated"
    /\ LET v == validate_filter_performance(reference_data, config)
       IN  /\ reference_data' = v.data
           /\ IF v.out.ok
              THEN report' = v.out.val /\ harness_pc' = "validated"
              ELSE report' = << >> /\ harness_pc' = "aborted"
    /\ UNCHANGED <<nodeVars, callVars, prev, concVars, actionVars, config, rng_state, order_index,
                   last_design, saved_file>>

\* save_reference_data(reference_data, output_file)
SaveReferenceData ==
    /\ harness_pc = "validated"
    /\ saved_file' = json_dump(reference_data)
    /\ harness_pc' = "done"
    /\ UNCHANGED <<nodeVars, callVars, prev, concVars, actionVars, config, rng_state, order_index,
                   reference_data, last_design, report>>

HarnessNext ==
    \/ GenerateStart
    \/ GenerateOrder
    \/ GenerateReturn
    \/ ValidateFilterPerformance
    \/ SaveReferenceData

SpecHarness == HarnessInit /\ [][HarnessNext]_vars

(***************************************************************************)
(* SpecRerun: the script is run, and run again with the same               *)
(* configuration.  The file of the run before is still there; the          *)
(* generator of the new process starts in any state.                       *)
(***************************************************************************)
RunAgain ==
    /\ harness_pc = "done"
    /\ rng_state' \in RngStates
    /\ harness_pc' = "start"
    /\ order_index' = 1
    /\ reference_data' = None
    /\ last_design' = None
    /\ report' = << >>
    /\ UNCHANGED <<nodeVars, callVars, prev, concVars, actionVars, config, saved_file>>

RerunNext == HarnessNext \/ RunAgain

SpecRerun == HarnessInit /\ [][RerunNext]_vars

(***************************************************************************)
(* SpecOrders: one run of the script for every order in which the orders   *)
(* of ORDERS can be listed.                                                *)
(***************************************************************************)
Orderings(seq) ==
    {p \in [1..Len(seq) -> Range(seq)] : \A i, j \in 1..Len(seq) : p[i] = p[j] => i = j}

OrdersInit ==
    /\ NodeInit
    /\ ConcInit
    /\ \E p \in Orderings(ORDERS), c \in HarnessConfigs :
          /\ c.bandwidth = BANDWIDTH
          /\ c.sample_rate = SAMPLE_RATE
          /\ config = [c EXCEPT !.orders = p]
    /\ rng_state = 0
    /\ HarnessIdle
    /\ ActionInit

SpecOrders == OrdersInit /\ [][HarnessNext]_vars

(***************************************************************************)
(* SpecDesign: the two designers, each run on its own on every input:      *)
(* design_filter of the nodes with a sample rate, and                      *)
(* design_scipy_bandpass_filter of the harness with an order of ORDERS and *)
(* a configuration.  last_design keeps the designer, the order asked for   *)
(* and the outcome.                                                        *)
(***************************************************************************)
DesignFilter ==
    /\ \E sample_rate \in AllRates :
          last_design' = [designer |-> "design_filter",
                          order |-> FILTER_ORDER, out |-> design_filter(sample_rate)]
    /\ UNCHANGED <<nodeVars, callVars, prev, concVars, actionVars, config, rng_state, harness_pc,
                   order_index, reference_data, report, saved_file>>

DesignScipyBandpassFilter ==
    /\ \E c \in HarnessConfigs, i \in 1..Len(ORDERS) :
          /\ config' = c
          /\ last_design' =
                [designer |-> "design_scipy_bandpass_filter",
                 order |-> ORDERS[i],
                 out |-> design_scipy_bandpass_filter(ORDERS[i], c.center_freq,
                                                      c.bandwidth, c.sample_rate)]
    /\ UNCHANGED <<nodeVars, callVars, prev, concVars, actionVars, rng_state, harness_pc, order_index,
                   reference_data, report, saved_file>>

DesignNext == DesignFilter \/ DesignScipyBandpassFilter

SpecDesign == Init /\ [][DesignNext]_vars

(***************************************************************************)
(* SpecAction: the driver calls the functions of advanced_action.py in any *)
(* order, one call at a time; the clock advances by one second at every    *)
(* call.  accepted_measurements and accepted_alerts list, in arrival       *)
(* order, the records the calls have appended to the two buffers.          *)
(***************************************************************************)
ActionCommit(name, r) ==
    /\ clock < MaxClock
    /\ clock' = clock + 1
    /\ action_call' = name
    /\ state' = r.st
    /\ action_ret' = r.out
    /\ UNCHANGED <<nodeVars, callVars, prev, concVars, harnessVars>>

ActionInitialize ==
    /\ ActionCommit("initialize", action_initialize(state, clock))
    /\ UNCHANGED <<accepted_measurements, accepted_alerts>>

OnMeasurement ==
    \E data \in MeasurementInputs :
        /\ ActionCommit("on_measurement", on_measurement(state, data, clock))
        /\ accepted_measurements' =
               IF "concentration_ppm" \in DOMAIN data
               THEN Append(accepted_measurements, measurement_record(data, clock))
               ELSE accepted_measurements
        /\ UNCHANGED accepted_alerts

OnAlert ==
    \E alert \in AlertInputs :
        /\ ActionCommit("on_alert", on_alert(state, alert, clock))
        /\ accepted_alerts' = Append(accepted_alerts, alert_record(alert, clock))
        /\ UNCHANGED accepted_measurements

ClearAction ==
    /\ ActionCommit("clear_action", clear_action(state, clock))
    /\ UNCHANGED <<accepted_measurements, accepted_alerts>>

ActionGetStatus ==
    /\ ActionCommit("get_status", action_get_status(state, clock))
    /\ UNCHANGED <<accepted_measurements, accepted_alerts>>

ActionShutdown ==
    /\ ActionCommit("shutdown", action_shutdown(state, clock))
    /\ UNCHANGED <<accepted_measurements, accepted_alerts>>

ActionNext ==
    \/ ActionInitialize
    \/ OnMeasurement
    \/ OnAlert
    \/ ClearAction
    \/ ActionGetStatus
    \/ ActionShutdown

SpecAction == Init /\ [][ActionNext]_vars

(***************************************************************************)
(* Properties.                                                             *)
(***************************************************************************)
\* The signal fields of a block of one of the three filtered types.
Filtered3 == {"SingleChannel", "DualChannel", "AudioFrame"}
SignalFields(data) ==
    IF get_type(data) = "SingleChannel" THEN {data.samples}
    ELSE IF get_type(data) \in {"DualChannel", "AudioFrame"} THEN {data.channel_a, data.channel_b}
    ELSE {}

IsProcessCall == call \in {"process_data", "basic.process_data"}

RangeMsg == "Digital filter critical frequencies must be 0 < Wn < 1"
PadlenMsg == "The length of the input vector x must be greater than padlen"

\* C1 (Spec): between two shutdowns, the design for a sample rate is run at
\* most once, whatever callbacks are invoked: the first call for a rate
\* computes and stores the cascade and the later ones return the stored one.
C1_DesignAtMostOnce == \A r \in AllRates : designs[r] <= 1

\* C2 (SpecConc): a rate that is in the cache was designed exactly once,
\* also when several callers make the first use of it at the same time.
C2_DesignedExactlyOnce == \A r \in DOMAIN filter_cache : designs[r] = 1

\* C3 (Spec): for every rate a design was run for, the clamped cutoffs
\* (low, high) handed to signal.butter satisfy 0.001 <= low,
\* low + 0.001 <= high and high <= 0.999.
C3_ClampedInRange ==
    \A r \in AllRates :
        designs[r] > 0 =>
            LET c == clamp_norm(LOW_FREQ, HIGH_FREQ, r)
            IN  /\ r <= c.low
                /\ c.low + r <= c.high
                /\ c.high <= 999 * r

\* C4 (Spec): process_data never fails with an out-of-range cutoff, whatever
\* the (positive) sample rate of the block.
C4_NoRangeError == IsProcessCall => (ret.ok \/ ret.msg # RangeMsg)

\* C5 (SpecHarness): the strict design fails, and returns no cascade,
\* exactly when the normalized low or high cutoff lies outside the open
\* interval (0, 1); when both lie inside, it returns the cascade of the
\* requested order with the cutoffs as computed, not clamped.
C5_StrictRejectsExactlyOutOfRange ==
    last_design # None =>
        LET den  == 1000 * config.sample_rate
            low  == 1000 * (2 * config.center_freq - config.bandwidth)
            high == 1000 * (2 * config.center_freq + config.bandwidth)
            inside(x) == 0 < x /\ x < den
        IN  /\ last_design.out.ok <=> (inside(low) /\ inside(high))
            /\ last_design.out.ok =>
                  last_design.out.val =
                      [order |-> last_design.order, low |-> low, high |-> high, den |-> den]

\* A band whose upper edge is above the Nyquist frequency has been refused,
\* although its lower edge is inside (0, 1).
C5_Witness ==
    /\ last_design # None
    /\ ~last_design.out.ok
    /\ 2 * config.center_freq - config.bandwidth > 0
    /\ 2 * config.center_freq - config.bandwidth < config.sample_rate
    /\ 2 * config.center_freq + config.bandwidth > config.sample_rate

C6_ResultSignalFiltered ==
    (IsProcessCall /\ get_type(arg) = "PhotoacousticResult") =>
        /\ ret.ok
        /\ ret.val.type = "PhotoacousticResult"
        /\ ret.val.metadata = arg.metadata
        /\ \E r \in AllRates :
              /\ apply_filter(arg.signal, r).ok
              /\ ret.val.signal = apply_filter(arg.signal, r).val

\* C6, amended (Spec): process_data returns an analysis-result block as it
\* is: same type, same metadata, and the signal not filtered.
C6_ResultPassedThrough ==
    (IsProcessCall /\ get_type(arg) = "PhotoacousticResult") => ret = Ok(arg)

C6_Witness ==
    /\ call = "process_data"
    /\ get_type(arg) = "PhotoacousticResult"
    /\ Len(arg.signal) > 0
    /\ ret.ok

\* C8, as claimed (SpecStream): two consecutive blocks of a channel give,
\* concatenated, the output of the whole stream fed as one block.
C8_SplitEqualsWhole ==
    (prev # None /\ call = "process_data" /\ ret.ok /\ prev.sample_rate = arg.sample_rate) =>
        LET whole == process_data(State, [arg EXCEPT !.samples = prev.samples \o arg.samples]).out
        IN  /\ whole.ok
            /\ whole.val.samples = prev.out \o ret.val.samples

\* C8, amended (SpecStream): every block is filtered on its own, zero-phase
\* and from rest: whatever was fed before, the output for a block is the
\* output of the stateless apply_filter of the basic node for that block.
C8_BlocksFilteredAlone ==
    (call = "process_data" /\ ret.ok) =>
        /\ apply_filter(arg.samples, arg.sample_rate).ok
        /\ ret.val.samples = apply_filter(arg.samples, arg.sample_rate).val

\* Two consecutive blocks of one channel, both filtered.
C8_Witness ==
    /\ prev # None
    /\ call = "process_data"
    /\ ret.ok
    /\ prev.sample_rate = arg.sample_rate
    /\ Len(prev.samples) > 0
    /\ Len(arg.samples) > 0

\* C9, as claimed (Spec): a block of a filtered type whose signal fields all
\* hold at least one sample is filtered, however short it is (at a rate
\* whose design succeeds).
C9_ShortBlocksFiltered ==
    (/\ IsProcessCall
     /\ get_type(arg) \in Filtered3
     /\ \A f \in SignalFields(arg) : Len(f) >= 1
     /\ design_filter(arg.sample_rate).ok) => ret.ok

\* C9, amended (Spec): a block of a filtered type is filtered exactly when
\* its signal fields are all empty, or the design of its rate succeeds and
\* every non-empty signal field holds more than 33 samples; with a designed
\* rate and a non-empty field of 33 samples or fewer, process_data raises
\* the ValueError of sosfiltfilt.
C9_FilteredIffLongEnough ==
    (IsProcessCall /\ get_type(arg) \in Filtered3) =>
        LET nonempty == {f \in SignalFields(arg) : Len(f) > 0}
            designed == design_filter(arg.sample_rate).ok
        IN  /\ ret.ok <=> (nonempty = {} \/ (designed /\ \A f \in nonempty : Len(f) > 33))
            /\ (designed /\ \E f \in nonempty : Len(f) <= 33) =>
                   (~ret.ok /\ ret.error = "ValueError" /\ ret.msg = PadlenMsg)

\* A one-sample block, at a rate whose design succeeds, has been refused.
C9_Witness ==
    /\ call = "process_data"
    /\ get_type(arg) = "SingleChannel"
    /\ Len(arg.samples) = 1
    /\ design_filter(arg.sample_rate).ok
    /\ ~ret.ok

\* C10 (Spec): shutdown() leaves an empty cache and the flag false and
\* returns {status: shutdown}; a get_status() right after it reports
\* cache_size 0.
C10_ShutdownClears ==
    [][ /\ call' = "shutdown" =>
              /\ filter_cache' = << >>
              /\ initialized' = FALSE
              /\ ret' = Ok([status |-> "shutdown"])
        /\ (call = "shutdown" /\ call' = "get_status") =>
              (ret'.ok /\ ret'.val.cache_size = 0) ]_vars

\* shutdown() has run.
C10_Witness ==
    /\ call = "shutdown"
    /\ filter_cache = << >>
    /\ ~initialized

\* C11, as claimed (Spec): an entry is created only by a filtering call that
\* uses its rate, and an entry stays, with the same cascade, until shutdown.
C11_EntriesOnlyFromFiltering ==
    [][ /\ \A r \in (DOMAIN filter_cache') \ (DOMAIN filter_cache) :
              /\ call' = "process_data"
              /\ get_type(arg') \in Filtered3
              /\ arg'.sample_rate = r
        /\ call' # "shutdown" =>
              \A r \in DOMAIN filter_cache :
                  r \in DOMAIN filter_cache' /\ filter_cache'[r] = filter_cache[r] ]_vars

\* C11, amended (Spec): an entry is created only by a filtering call that
\* uses its rate with a non-empty signal field, or by initialize() for one of
\* its common sample rates; an entry stays, with the same cascade, until
\* shutdown.
C11_EntriesFromFilteringOrInitialize ==
    [][ /\ \A r \in (DOMAIN filter_cache') \ (DOMAIN filter_cache) :
              \/ /\ call' = "process_data"
                 /\ get_type(arg') \in Filtered3
                 /\ arg'.sample_rate = r
                 /\ \E f \in SignalFields(arg') : Len(f) > 0
              \/ /\ call' = "initialize"
                 /\ r \in Range(common_sample_rates)
        /\ call' # "shutdown" =>
              \A r \in DOMAIN filter_cache :
                  r \in DOMAIN filter_cache' /\ filter_cache'[r] = filter_cache[r] ]_vars

\* The cache holds the rates of initialize() and a rate a block brought, and
\* callbacks have run since the entries were made.
C11_Witness ==
    /\ initialized
    /\ Range(common_sample_rates) \subseteq DOMAIN filter_cache
    /\ 8000 \in DOMAIN filter_cache
    /\ call = "get_status"

C13_EveryOrderEven ==
    (last_design # None /\ last_design.out.ok) =>
        /\ last_design.out.val.order % 2 = 0
        /\ last_design.out.val.order >= 2

\* C13, amended (SpecDesign): every design is run with a positive order; the
\* harness designs with the order requested, an even number that is at least
\* 2, and the nodes design with their configured order 5, which is odd.
C13_HarnessOrdersEvenNodeOrderFive ==
    (last_design # None /\ last_design.out.ok) =>
        /\ last_design.out.val.order >= 1
        /\ last_design.designer = "design_scipy_bandpass_filter" =>
              /\ last_design.out.val.order = last_design.order
              /\ last_design.out.val.order % 2 = 0
              /\ last_design.out.val.order >= 2
        /\ last_design.designer = "design_filter" =>
              /\ last_design.out.val.order = 5
              /\ last_design.out.val.order % 2 = 1

\* The node's designer has run, and returned a cascade.
C13_Witness ==
    /\ last_design # None
    /\ last_design.out.ok
    /\ last_design.designer = "design_filter"

\* The keys of a block that hold signals.
SignalKeys == {"samples", "channel_a", "channel_b", "signal"}

\* C14 (Spec): the block process_data returns for a SingleChannel or
\* DualChannel block has the type of the input and the same fields, and its
\* sample_rate, timestamp and frame_number are the input's: only the signal
\* fields (samples, or channel_a and channel_b) can differ.
C14_OnlySignalFieldsDiffer ==
    (IsProcessCall /\ get_type(arg) \in {"SingleChannel", "DualChannel"} /\ ret.ok) =>
        /\ DOMAIN ret.val = DOMAIN arg
        /\ ret.val.type = arg.type
        /\ ret.val.sample_rate = arg.sample_rate
        /\ ret.val.timestamp = arg.timestamp
        /\ ret.val.frame_number = arg.frame_number
        /\ \A k \in DOMAIN arg \ SignalKeys : ret.val[k] = arg[k]

\* A DualChannel block with frame number 2 came back with both channels
\* changed.
C14_Witness ==
    /\ call = "process_data"
    /\ get_type(arg) = "DualChannel"
    /\ arg.frame_number = 2
    /\ ret.ok
    /\ ret.val.channel_a # arg.channel_a
    /\ ret.val.channel_b # arg.channel_b

\* C15 (Spec): process_data never returns a block tagged AudioFrame for an
\* AudioFrame block: the block it returns is tagged DualChannel, its
\* channel_a and channel_b are the filtered channels of the input, and its
\* sample_rate, timestamp and frame_number are the input's.
C15_AudioFrameRetagged ==
    (IsProcessCall /\ get_type(arg) = "AudioFrame" /\ ret.ok) =>
        /\ ret.val.type = "DualChannel"
        /\ ret.val.type # "AudioFrame"
        /\ DOMAIN ret.val = DOMAIN arg
        /\ apply_filter(arg.channel_a, arg.sample_rate).ok
        /\ apply_filter(arg.channel_b, arg.sample_rate).ok
        /\ ret.val.channel_a = apply_filter(arg.channel_a, arg.sample_rate).val
        /\ ret.val.channel_b = apply_filter(arg.channel_b, arg.sample_rate).val
        /\ ret.val.sample_rate = arg.sample_rate
        /\ ret.val.timestamp = arg.timestamp
        /\ ret.val.frame_number = arg.frame_number

\* An AudioFrame with two different channels has been filtered.
C15_Witness ==
    /\ call = "process_data"
    /\ get_type(arg) = "AudioFrame"
    /\ arg.channel_a # arg.channel_b
    /\ Len(arg.channel_a) > 0
    /\ Len(arg.channel_b) > 0
    /\ ret.ok

\* C16 (Spec): a block whose type is none of the four shapes, or that has no
\* type key, is returned by process_data as it is: same type tag, same
\* fields, same values; the call does not fail.
C16_UnknownShapeUnchanged ==
    (IsProcessCall /\ get_type(arg) \notin Filtered3 \cup {"PhotoacousticResult"}) =>
        /\ ret.ok
        /\ DOMAIN ret.val = DOMAIN arg
        /\ get_type(ret.val) = get_type(arg)
        /\ \A k \in DOMAIN arg : ret.val[k] = arg[k]

\* A block without a type key has been handed to the optimized node.
C16_Witness ==
    /\ call = "process_data"
    /\ "type" \notin DOMAIN arg
    /\ ret.ok

\* The keys of the signal fields of a block of one of the three filtered types.
FilteredKeys(data) ==
    IF get_type(data) = "SingleChannel" THEN {"samples"} ELSE {"channel_a", "channel_b"}

\* C17, as claimed (Spec): for every block of a filtered type, also at a rate
\* whose design succeeds, every signal field comes back filtered with the
\* length it had.
C17_SameLengthEveryBlock ==
    (/\ IsProcessCall
     /\ get_type(arg) \in Filtered3
     /\ design_filter(arg.sample_rate).ok) =>
        /\ ret.ok
        /\ \A k \in FilteredKeys(arg) : Len(ret.val[k]) = Len(arg[k])

\* C17, amended (Spec): applying the filter either returns a sequence of the
\* length of the input or raises ValueError (a non-empty block of 33 samples
\* or fewer, or a rate whose design is rejected); an empty sequence is
\* returned as it is, and a block whose signal fields are all empty is
\* returned without a design being run or the cache being touched.
C17_SameLengthOrValueError ==
    [][ (call' \in {"process_data", "basic.process_data"} /\ get_type(arg') \in Filtered3) =>
          /\ ret'.ok =>
                \A k \in FilteredKeys(arg') :
                    /\ Len(ret'.val[k]) = Len(arg'[k])
                    /\ Len(arg'[k]) = 0 => ret'.val[k] = arg'[k]
          /\ ~ret'.ok =>
                /\ ret'.error = "ValueError"
                /\ \/ \E k \in FilteredKeys(arg') : Len(arg'[k]) \in 1..33
                   \/ ~design_filter(arg'.sample_rate).ok
          /\ (\A k \in FilteredKeys(arg') : Len(arg'[k]) = 0) =>
                /\ ret'.ok
                /\ filter_cache' = filter_cache
                /\ designs' = designs ]_vars

\* The optimized node has returned an empty block at a rate it has no
\* cascade for.
C17_Witness ==
    /\ call = "process_data"
    /\ get_type(arg) = "SingleChannel"
    /\ arg.samples = << >>
    /\ ret = Ok(arg)
    /\ arg.sample_rate \notin DOMAIN filter_cache
    /\ designs[arg.sample_rate] = 0

\* The entries of the filters mapping of the dataset being built, and the
\* order an entry is labelled with.
HasDataset == reference_data # None
EntryIndexes == IF HasDataset THEN 1..Len(reference_data.filters) ELSE {}
EntryOrder(i) == reference_data.filters[i][1][2]
EntryDesign(i) ==
    design_scipy_bandpass_filter(EntryOrder(i), config.center_freq, config.bandwidth,
                                 config.sample_rate)

\* C18, as claimed (SpecHarness): the entry of every order holds the cascade
\* of the strict design for that order and, for every test signal, its
\* zero-phase (forward-backward) output through that cascade.
C18_ProcessedZeroPhase ==
    \A i \in EntryIndexes :
        LET entry == reference_data.filters[i][2]
            sos   == EntryDesign(i)
        IN  /\ sos.ok
            /\ entry.sos_coefficients = sos.val
            /\ dict_keys(entry.processed_signals) = dict_keys(reference_data.test_signals)
            /\ \A j \in 1..Len(reference_data.test_signals) :
                  entry.processed_signals[j][2] =
                      Reverse(sosfilt(sos.val,
                                      Reverse(sosfilt(sos.val, reference_data.test_signals[j][2]))))

\* C18, amended (SpecHarness): the entry of every order holds the cascade of
\* the strict design for that order and, for every test signal, its output
\* through one causal pass (sosfilt) of that cascade, started from rest.
C18_ProcessedSinglePass ==
    \A i \in EntryIndexes :
        LET entry == reference_data.filters[i][2]
            sos   == EntryDesign(i)
        IN  /\ sos.ok
            /\ entry.sos_coefficients = sos.val
            /\ dict_keys(entry.processed_signals) = dict_keys(reference_data.test_signals)
            /\ \A j \in 1..Len(reference_data.test_signals) :
                  entry.processed_signals[j][2] =
                      sosfilt(sos.val, reference_data.test_signals[j][2])

\* The run has filtered the test signals for every order, and the outputs
\* for the highest order are not the signals themselves.
C18_Witness ==
    /\ harness_pc = "generated"
    /\ Len(reference_data.filters) = Len(ORDERS)
    /\ \E i \in EntryIndexes :
          /\ EntryOrder(i) = 10
          /\ reference_data.filters[i][2].processed_signals # reference_data.test_signals

\* C19 (SpecRerun): a run of the script with the configuration of the run
\* before it writes the file that run wrote, pair for pair in the same
\* order, whatever state the random generator starts in; and the dataset of
\* a run holds the test signals of its configuration alone.
C19_RerunWritesSameFile ==
    [][ /\ (harness_pc = "validated" /\ harness_pc' = "done" /\ saved_file # None) =>
              saved_file' = saved_file
        /\ (harness_pc = "start" /\ harness_pc' = "orders") =>
              \A r \in RngStates :
                  reference_data'.test_signals = create_test_signals(r, config).out ]_vars

\* A second run has generated its dataset while the file of the first run is
\* there.
C19_Witness ==
    /\ harness_pc = "generated"
    /\ saved_file # None
    /\ Len(reference_data.filters) = Len(ORDERS)

C21_ProcessedNamesAndLengths ==
    \A i \in EntryIndexes :
        LET processed == reference_data.filters[i][2].processed_signals
            signals   == reference_data.test_signals
        IN  /\ Range(dict_keys(processed)) = Range(dict_keys(signals))
            /\ Len(processed) = Len(signals)
            /\ \A name \in Range(dict_keys(signals)) :
                  /\ Len(dict_get(processed, name)) = Len(dict_get(signals, name))
                  /\ Len(dict_get(processed, name)) = reference_data.config.signal_length

\* The dataset of a run is complete, with seven test signals.
C21_Witness ==
    /\ harness_pc = "generated"
    /\ Len(reference_data.filters) = Len(ORDERS)
    /\ Len(reference_data.test_signals) = 7
    /\ "white_noise" \in Range(dict_keys(reference_data.filters[1][2].processed_signals))

\* C22 (SpecHarness): the filters mapping of a generated dataset has one
\* entry labelled order_N for each requested order N and no other entry; in
\* every entry the frequencies, magnitude and phase of frequency_response
\* have one length, the number of frequency points.
C22_OneEntryPerOrder ==
    /\ harness_pc \in {"generated", "done"} =>
          /\ Len(reference_data.filters) = Len(config.orders)
          /\ Range(dict_keys(reference_data.filters)) =
                {order_label(o) : o \in Range(config.orders)}
    /\ \A i \in EntryIndexes :
          LET response == reference_data.filters[i][2].frequency_response
          IN  /\ EntryOrder(i) \in Range(config.orders)
              /\ Len(response.frequencies) = NumPoints
              /\ Len(response.magnitude) = NumPoints
              /\ Len(response.phase) = NumPoints

\* The dataset of a run has been saved, with the entry of order 6 in it.
C22_Witness ==
    /\ harness_pc = "done"
    /\ order_label(6) \in Range(dict_keys(reference_data.filters))
    /\ saved_file # None

\* C23 (SpecHarness): validate_filter_performance always returns, whatever
\* magnitudes it reads, and leaves the dataset as it was generated; the file
\* written after it holds that dataset.
C23_ValidationOnlyDiagnostic ==
    [][ /\ harness_pc = "generated" =>
              /\ harness_pc' = "validated"
              /\ reference_data' = reference_data
              /\ saved_file' = saved_file
        /\ harness_pc = "validated" =>
              /\ harness_pc' = "done"
              /\ reference_data' = reference_data
              /\ saved_file' = json_dump(reference_data) ]_vars

\* A dataset whose magnitude at the centre frequency is 0 for some order (the
\* attenuation at the cutoff points is then not a number) has been validated.
C23_Witness ==
    /\ harness_pc = "validated"
    /\ \E i \in 1..Len(report) :
          /\ report[i].center_magnitude = 0
          /\ report[i].low_cutoff_db.kind = "nan"

\* C24 (Spec): get_status() reports low_freq, high_freq and filter_order as
\* configured, cache_size as the number of cached rates, cached_sample_rates
\* as the keys of the cache and initialized as the flag, and changes neither
\* the cache nor the flag.
C24_StatusReportsCache ==
    [][ call' = "get_status" =>
          /\ ret'.ok
          /\ ret'.val.status = "active"
          /\ ret'.val.low_freq = LOW_FREQ
          /\ ret'.val.high_freq = HIGH_FREQ
          /\ ret'.val.filter_order = FILTER_ORDER
          /\ ret'.val.cache_size = Cardinality(DOMAIN filter_cache)
          /\ ret'.val.cached_sample_rates = DOMAIN filter_cache
          /\ ret'.val.initialized = initialized
          /\ filter_cache' = filter_cache
          /\ initialized' = initialized ]_vars

\* get_status() has run with five rates in the cache, one of them brought by
\* a block.
C24_Witness ==
    /\ call = "get_status"
    /\ ret.val.cache_size = 5
    /\ 8000 \in ret.val.cached_sample_rates

\* C25 (Spec): the cascade cached under a rate is the cascade design_filter
\* of the basic node returns for that rate.
C25_CacheMatchesBasicDesign ==
    \A r \in DOMAIN filter_cache :
        /\ design_filter(r).ok
        /\ filter_cache[r] = design_filter(r).val

\* Blocks of two rates have been filtered by a node that is not initialized.
C25_Witness ==
    /\ call = "process_data"
    /\ ret.ok
    /\ ~initialized
    /\ DOMAIN filter_cache = {8000, 48000}

\* C26 (Spec): process_data leaves the flag as it is; it removes and
\* replaces no entry of the cache and adds at most the entry of the rate of
\* its block; for a block of a type it does not handle and for a block
\* whose signal fields are all empty it leaves the cache as it is.
C26_ProcessOnlyAddsOwnRate ==
    [][ call' = "process_data" =>
          /\ initialized' = initialized
          /\ \A r \in DOMAIN filter_cache :
                r \in DOMAIN filter_cache' /\ filter_cache'[r] = filter_cache[r]
          /\ Cardinality((DOMAIN filter_cache') \ (DOMAIN filter_cache)) <= 1
          /\ \A r \in (DOMAIN filter_cache') \ (DOMAIN filter_cache) :
                get_type(arg') \in Filtered3 /\ r = arg'.sample_rate
          /\ (get_type(arg') \notin Filtered3) => filter_cache' = filter_cache
          /\ (/\ get_type(arg') \in Filtered3
              /\ \A k \in FilteredKeys(arg') : Len(arg'[k]) = 0) => filter_cache' = filter_cache ]_vars

\* A process_data call has succeeded on an empty cache with the flag false
\* (the state shutdown leaves), and has left an entry in the cache.
C26_Witness ==
    /\ call = "process_data"
    /\ get_type(arg) \in Filtered3
    /\ ret.ok
    /\ ~initialized
    /\ DOMAIN filter_cache = {arg.sample_rate}
    /\ designs[arg.sample_rate] = 1

\* C27 (Spec): while the flag is true the cache has an entry for each of
\* 44100, 48000, 96000 and 192000; initialize() called again leaves every
\* entry there is as it is and runs no design for it.
C27_InitializedHasCommonRates ==
    [][ /\ initialized' => {44100, 48000, 96000, 192000} \subseteq DOMAIN filter_cache'
        /\ call' = "initialize" =>
              /\ ret'.ok
              /\ initialized'
              /\ \A r \in DOMAIN filter_cache :
                    /\ r \in DOMAIN filter_cache'
                    /\ filter_cache'[r] = filter_cache[r]
                    /\ designs'[r] = designs[r] ]_vars

\* initialize() has run on a node that was initialized, and no rate was
\* designed twice.
C27_Witness ==
    /\ call = "initialize"
    /\ initialized
    /\ arg = None
    /\ \A r \in Range(common_sample_rates) : designs[r] = 1
    /\ 8000 \in DOMAIN filter_cache

(***************************************************************************)
(* The action script.                                                      *)
(***************************************************************************)
\* A step that is a call of the named function of the action script.
IsActionCall(name) == action_call' = name /\ clock' = clock + 1

\* The last n elements of seq (all of it when it is shorter).
MostRecent(seq, n) ==
    IF Len(seq) <= n THEN seq ELSE [i \in 1..n |-> seq[Len(seq) - n + i]]

\* C28: clear_action leaves the two buffers as they are, returns the
\* statistics it found in preserved_stats, and resets the counters: after it
\* total_measurements and total_alerts are 0.
C28_ClearResetsCounters ==
    [][IsActionCall("clear_action") =>
          /\ state'.measurements = state.measurements
          /\ state'.alerts = state.alerts
          /\ action_ret'.preserved_stats.total_measurements_before_clear
                 = state.statistics.total_measurements
          /\ action_ret'.preserved_stats.total_alerts_before_clear
                 = state.statistics.total_alerts
          /\ action_ret'.preserved_stats.avg_concentration_before_clear
                 = state.statistics.avg_concentration
          /\ state'.statistics.total_measurements = 0
          /\ state'.statistics.total_alerts = 0]_vars

\* C29: after any sequence of calls the measurements buffer holds at most
\* MeasurementsMaxLen records and the alerts buffer at most AlertsMaxLen, and
\* each holds the most recent of the records appended to it, in arrival order.
C29_BuffersKeepMostRecent ==
    /\ Len(state.measurements) <= MeasurementsMaxLen
    /\ Len(state.alerts) <= AlertsMaxLen
    /\ state.measurements = MostRecent(accepted_measurements, MeasurementsMaxLen)
    /\ state.alerts = MostRecent(accepted_alerts, AlertsMaxLen)

\* Both buffers are full and each has dropped its oldest record.
C29_Witness ==
    /\ Len(accepted_measurements) > MeasurementsMaxLen
    /\ Len(accepted_alerts) > AlertsMaxLen
    /\ Len(state.measurements) = MeasurementsMaxLen
    /\ Len(state.alerts) = AlertsMaxLen

\* C30: an on_measurement call that returns processed: False leaves the state
\* of the script as it was, the total_measurements counter included.
C30_FailedMeasurementLeavesState ==
    [][(IsActionCall("on_measurement") /\ ~action_ret'.processed) => state' = state]_vars

=============================================================================
